---- MODULE Spec2Model ----
(***************************************************************************)
(* Token caching and credential resolution of the Storage Insights MCP     *)
(* server (src/si_mcp_server_oss/utils.py, server.py).                     *)
(*                                                                         *)
(* Every tool of server.py has the same shape: resolve_tenant_id, then     *)
(* call_ibm_storageinsights_api (fetch_token, then one GET), all inside a  *)
(* try/except that turns any exception into an isError result.  Tool       *)
(* invocations are asyncio tasks: the code between two network awaits is   *)
(* one atomic step, and the wall clock advances on its own.                *)
(***************************************************************************)
EXTENDS Integers, FiniteSets, Sequences, TLC

\* Last instant of the wall clock (abstract epoch-milliseconds 0..MaxTime).
MaxTime == 1

\* Concurrently running tool invocations (asyncio tasks).
Invocations == {"a", "b"}

(***************************************************************************)
(* Python / JSON values.  The token endpoint's JSON is dynamically typed,  *)
(* so values carry their type.                                             *)
(***************************************************************************)
JNull == [type |-> "null"]
JInt(n) == [type |-> "int", val |-> n]
JStr(s) == [type |-> "str", val |-> s]
JObj(f) == [type |-> "object", fields |-> f]

\* A function call either returns a value or raises an exception.
Return(v) == [raised |-> FALSE, value |-> v]
Raise(e) == [raised |-> TRUE, error |-> e]

\* Python's  a > b  for a JSON value a and a float b: defined for numbers
\* only, a TypeError for None and str.
PyGreater(a, b) ==
  IF a.type = "int" THEN Return(a.val > b)
  ELSE Raise([exc |-> "TypeError"])

\* Python's  v.get(k)  : only a dict has it; a missing key gives None.
PyDictGet(v, k) ==
  IF v.type = "object"
    THEN Return(IF k \in DOMAIN v.fields THEN v.fields[k] ELSE JNull)
  ELSE Raise([exc |-> "AttributeError"])

\* Python's  v[k]  : a KeyError for a missing key, a TypeError for None.
PyGetItem(v, k) ==
  IF v.type = "object"
    THEN IF k \in DOMAIN v.fields THEN Return(v.fields[k])
         ELSE Raise([exc |-> "KeyError", key |-> k])
  ELSE Raise([exc |-> "TypeError"])

\* Python's f"{token}": a str as it is, None as the text "None", a number
\* as its digits.
PyFormat(v) ==
  IF v.type = "str" THEN v.val
  ELSE IF v.type = "null" THEN "None"
  ELSE ToString(v.val)

(***************************************************************************)
(* Configuration (settings.py, utils.py:32).                               *)
(***************************************************************************)
SI_TENANT_ID == "t1"
SI_API_KEY == "k1"

\* Marker of a tool argument the client left out, and of an explicit null.
Omitted == "<omitted>"
None == "<None>"

\* Tenant ids a client may send: the default, an additional tenant, and an
\* unknown one (the additional tenant's id in another letter case).
TenantIds == {"t1", "t2", "T2"}
ToolInputs == TenantIds \cup {Omitted, None}

\* ADDITIONAL_TENANT_API_MAPPING, utils.py:32: one additional tenant, and
\* the default tenant listed once more under another key.
additional_tenant_api_mapping ==
  [t \in {"t1", "t2"} |-> IF t = "t1" THEN "k9" ELSE "k2"]

VARIABLES
  token_cache,     \* utils.py:52: tenant id -> [token, expiration]
  now,             \* time.time() * 1000
  pc,              \* where each invocation stands
  tool_arg,        \* the tenant id argument the client called the tool with
  tenant_id,       \* the tenant id resolve_tenant_id returned
  api_key,         \* the api key resolve_tenant_id returned
  token,           \* fetch_token's local  token
  token_expiration, \* the expiration that came with that token, until the
                   \* GET is issued (the GET carries the token only)
  net,             \* the invocation's HTTP request in flight
  response,        \* the response the invocation's last await returned
  outcome,         \* the CallToolResult of the invocation
  sent,            \* requests the running invocation has issued: [post, get]
  json_parsed      \* whether the invocation called response.json() on a GET

vars == <<token_cache, now, pc, tool_arg, tenant_id, api_key, token,
          token_expiration, net, response, outcome, sent, json_parsed>>

NoTenant == "<unresolved>"
NoKey == "<nokey>"
NoToken == [type |-> "unset"]
NoMsg == [kind |-> "none"]
NoOutcome == [kind |-> "none"]

(***************************************************************************)
(* resolve_tenant_id, utils.py:101-125.                                    *)
(***************************************************************************)
\* Faulty variants of resolve_tenant_id: a lookup that ignores letter case,
\* and one that hands the default api key to every known tenant.
LowerCase(tid) == IF tid = "T2" THEN "t2" ELSE tid

resolve_tenant_id_nocase(tid) ==
  IF tid = SI_TENANT_ID
    THEN Return(<<tid, SI_API_KEY>>)
  ELSE IF LowerCase(tid) \in DOMAIN additional_tenant_api_mapping
    THEN Return(<<LowerCase(tid),
                  additional_tenant_api_mapping[LowerCase(tid)]>>)
  ELSE Raise([exc |-> "ValueError", tenant |-> tid])

\* A third one: an unknown tenant id falls back to the default tenant.
resolve_tenant_id_fallback(tid) ==
  IF tid \in DOMAIN additional_tenant_api_mapping /\ tid # SI_TENANT_ID
    THEN Return(<<tid, additional_tenant_api_mapping[tid]>>)
  ELSE Return(<<SI_TENANT_ID, SI_API_KEY>>)

\* A fourth one: the additional mapping is looked up before the default.
resolve_tenant_id_mapping_first(tid) ==
  IF tid \in DOMAIN additional_tenant_api_mapping
    THEN Return(<<tid, additional_tenant_api_mapping[tid]>>)
  ELSE IF tid = SI_TENANT_ID
    THEN Return(<<tid, SI_API_KEY>>)
  ELSE Raise([exc |-> "ValueError", tenant |-> tid])

resolve_tenant_id_default_key(tid) ==
  IF tid = SI_TENANT_ID
    THEN Return(<<tid, SI_API_KEY>>)
  ELSE IF tid \in DOMAIN additional_tenant_api_mapping
    THEN Return(<<tid, SI_API_KEY>>)
  ELSE Raise([exc |-> "ValueError", tenant |-> tid])

resolve_tenant_id(tid) ==
  IF tid = SI_TENANT_ID
    THEN Return(<<tid, SI_API_KEY>>)
  ELSE IF tid \in DOMAIN additional_tenant_api_mapping
    THEN Return(<<tid, additional_tenant_api_mapping[tid]>>)
  ELSE Raise([exc |-> "ValueError", tenant |-> tid])

\* Faulty variant of tenant_id_input: a parameter default of None.
tenant_id_input_none(arg) == IF arg = Omitted THEN None ELSE arg

\* The tools' parameter default, server.py:51:
\*   tenant_id_input: Optional[str] = SI_TENANT_ID
tenant_id_input(arg) == IF arg = Omitted THEN SI_TENANT_ID ELSE arg

(***************************************************************************)
(* HTTP.  A response is a timeout/transport error or a status with its     *)
(* content; content is the text of a JSON document (written as the         *)
(* document it serialises) or some other text.                             *)
(***************************************************************************)
Timeout == [kind |-> "timeout"]
HttpResponse(status, content) ==
  [kind |-> "response", status_code |-> status, content |-> content]
EmptyContent == [text |-> ""]
NotJson == [text |-> "<html>"]
JsonText(doc) == [json |-> doc]

\* Faulty variant of raise_for_status: only server errors raise.
raise_for_status_5xx(resp) ==
  IF resp.status_code < 500 THEN Return(JNull)
  ELSE Raise([exc |-> "HTTPStatusError", status |-> resp.status_code])

\* httpx Response.raise_for_status: an exception unless the status is 2xx.
raise_for_status(resp) ==
  IF resp.status_code \in 200..299 THEN Return(JNull)
  ELSE Raise([exc |-> "HTTPStatusError", status |-> resp.status_code])

\* httpx Response.json(): the decoded document, or a decoding error.
response_json(resp) ==
  IF "json" \in DOMAIN resp.content THEN Return(resp.content.json)
  ELSE Raise([exc |-> "JSONDecodeError"])

(***************************************************************************)
(* fetch_token, utils.py:55-98.                                            *)
(***************************************************************************)
\* Faulty variant of the reuse test: any entry is reused, expired or not.
token_is_cached_any(cache, t, nowms) == Return(t \in DOMAIN cache)

\* Faulty variant of the reuse test: an entry about to expire is not reused.
token_is_cached_late(cache, t, nowms) ==
  IF t \in DOMAIN cache
    THEN PyGreater(cache[t].expiration, nowms + 1)
  ELSE Return(FALSE)

\* The reuse test, utils.py:68-70: TRUE to reuse the cached token, FALSE to
\* request a new one; the comparison raises when the cached expiration is
\* not a number.
token_is_cached(cache, t, nowms) ==
  IF t \in DOMAIN cache
    THEN PyGreater(cache[t].expiration, nowms)
  ELSE Return(FALSE)

\* The token request, utils.py:76-85.
token_request(t, key) ==
  [kind |-> "request", method |-> "POST", tenant |-> t, path |-> "token",
   auth |-> key]

\* Faulty variant of read_token_response: token and expiration are looked up
\* in the document itself instead of in its "result".
read_token_response_toplevel(resp) ==
  IF resp.kind = "timeout" THEN Raise([exc |-> "TimeoutException"])
  ELSE IF raise_for_status(resp).raised THEN raise_for_status(resp)
  ELSE IF response_json(resp).raised THEN response_json(resp)
  ELSE LET data == response_json(resp).value
           tok == PyGetItem(data, "token")
           exp == PyGetItem(data, "expiration")
       IN IF tok.raised THEN tok
          ELSE IF exp.raised THEN exp
          ELSE Return([token |-> tok.value, expiration |-> exp.value])

\* utils.py:85-89: what the try block extracts from the response, or the
\* exception it raises.
read_token_response(resp) ==
  IF resp.kind = "timeout" THEN Raise([exc |-> "TimeoutException"])
  ELSE IF raise_for_status(resp).raised THEN raise_for_status(resp)
  ELSE IF response_json(resp).raised THEN response_json(resp)
  ELSE LET data == response_json(resp).value
           r1 == PyDictGet(data, "result")
       IN IF r1.raised THEN r1
          ELSE LET tok == PyGetItem(r1.value, "token")
                   exp == PyGetItem(r1.value, "expiration")
               IN IF tok.raised THEN tok
                  ELSE IF exp.raised THEN exp
                  ELSE Return([token |-> tok.value, expiration |-> exp.value])

\* Faulty variant of store_token: the cache is replaced by the one new entry.
store_token_alone(cache, t, tok, exp) ==
  t :> [token |-> tok, expiration |-> exp]

\* Faulty variant of store_token: only the token of an existing entry is
\* replaced, its expiration stays.
store_token_keep_expiration(cache, t, tok, exp) ==
  (t :> [token |-> tok,
         expiration |-> IF t \in DOMAIN cache THEN cache[t].expiration
                        ELSE exp]) @@ cache

\* Faulty variant of store_token: an existing entry is kept.
store_token_if_absent(cache, t, tok, exp) ==
  IF t \in DOMAIN cache THEN cache
  ELSE (t :> [token |-> tok, expiration |-> exp]) @@ cache

\* utils.py:90-93: the cache after a response was read.
store_token(cache, t, tok, exp) ==
  (t :> [token |-> tok, expiration |-> exp]) @@ cache

(***************************************************************************)
(* call_ibm_storageinsights_api, utils.py:128-158.                         *)
(***************************************************************************)
\* The GET, utils.py:138-148; its URL is built by the tool, server.py:71.
get_request(t, tok) ==
  [kind |-> "request", method |-> "GET", tenant |-> t, path |-> "data",
   auth |-> PyFormat(tok)]

\* utils.py:150: response.json() is called only on non-empty content.
calls_json(resp) ==
  /\ resp.kind = "response"
  /\ ~raise_for_status(resp).raised
  /\ resp.content # EmptyContent

\* Faulty variant of read_get_response: response.json() whatever the content.
read_get_response_always_json(resp) ==
  IF resp.kind = "timeout" THEN Raise([exc |-> "TimeoutException"])
  ELSE IF raise_for_status(resp).raised THEN raise_for_status(resp)
  ELSE response_json(resp)

\* utils.py:146-157: the result of the GET, or the exception raised.
read_get_response(resp) ==
  IF resp.kind = "timeout" THEN Raise([exc |-> "TimeoutException"])
  ELSE IF raise_for_status(resp).raised THEN raise_for_status(resp)
  ELSE IF resp.content # EmptyContent THEN response_json(resp)
  ELSE Return(JNull)

\* Faulty variant of CallToolResult: every exception is reported as the same
\* generic error.
CallToolResult_generic(r) ==
  IF r.raised
    THEN [kind |-> "result", isError |-> TRUE, text |-> [exc |-> "Exception"]]
  ELSE [kind |-> "result", isError |-> FALSE, text |-> r.value]

\* The tools' try/except, server.py:63-91.
CallToolResult(r) ==
  IF r.raised THEN [kind |-> "result", isError |-> TRUE, text |-> r.error]
  ELSE [kind |-> "result", isError |-> FALSE, text |-> r.value]

(***************************************************************************)
(* The upstream service: what it may answer to a request.                  *)
(***************************************************************************)
TokenNames == {"A", "B"}

\* Tokens the token endpoint issues for tenant t.
IssuedTokens(t) == {t \o "-" \o n : n \in TokenNames}

\* Bodies of a 2xx answer of the token endpoint to a request for tenant t:
\* the documented {result: {token, expiration}} with a token of that tenant
\* (by the time the answer is read its expiration may lie ahead or not: the
\* answer may be late, the clocks may differ), the same with null fields,
\* and bodies that lack expiration or are no JSON at all.
TokenDoc(tok, exp) ==
  JObj([result |-> JObj([token |-> tok, expiration |-> exp])])

TokenContents(t) ==
  { JsonText(TokenDoc(JStr(x), JInt(e))) :
      x \in IssuedTokens(t), e \in 1..(MaxTime + 1) }
  \cup { JsonText(TokenDoc(JNull, JNull)),
         JsonText(JObj([result |-> JObj([token |-> JStr(t \o "-A")])])),
         NotJson }

TokenReplies(t) ==
  {Timeout}
  \cup {HttpResponse(500, EmptyContent)}
  \cup {HttpResponse(200, c) : c \in TokenContents(t)}

DataReplies ==
  {Timeout}
  \cup {HttpResponse(401, NotJson)}
  \cup {HttpResponse(200, c) :
          c \in {EmptyContent, NotJson, JsonText(JObj([a |-> JInt(1)]))}}
  \cup {HttpResponse(204, EmptyContent)}

(***************************************************************************)
(* The state machine.                                                      *)
(***************************************************************************)
NoneSent == [post |-> 0, get |-> 0]

Init ==
  /\ token_cache = [t \in {} |-> JNull]
  /\ now = 0
  /\ pc = [i \in Invocations |-> "idle"]
  /\ tool_arg = [i \in Invocations |-> Omitted]
  /\ tenant_id = [i \in Invocations |-> NoTenant]
  /\ api_key = [i \in Invocations |-> NoKey]
  /\ token = [i \in Invocations |-> NoToken]
  /\ token_expiration = [i \in Invocations |-> NoToken]
  /\ net = [i \in Invocations |-> NoMsg]
  /\ response = [i \in Invocations |-> NoMsg]
  /\ outcome = [i \in Invocations |-> NoOutcome]
  /\ sent = [i \in Invocations |-> NoneSent]
  /\ json_parsed = [i \in Invocations |-> FALSE]

\* The invocation ends: the tool returns its CallToolResult.
Finish(i, r) ==
  /\ pc' = [pc EXCEPT ![i] = "done"]
  /\ outcome' = [outcome EXCEPT ![i] = CallToolResult(r)]
  /\ net' = [net EXCEPT ![i] = NoMsg]
  /\ token' = [token EXCEPT ![i] = NoToken]
  /\ token_expiration' = [token_expiration EXCEPT ![i] = NoToken]
  /\ sent' = [sent EXCEPT ![i] = NoneSent]

\* A client calls a tool with argument arg (server.py:63-65); the tool runs
\* resolve_tenant_id, enters call_ibm_storageinsights_api (utils.py:136-137)
\* and fetch_token up to its first await (utils.py:68-85).
ToolInvoke(i, arg) ==
  /\ pc[i] \in {"idle", "done"}
  /\ tool_arg' = [tool_arg EXCEPT ![i] = arg]
  /\ response' = [response EXCEPT ![i] = NoMsg]
  /\ json_parsed' = [json_parsed EXCEPT ![i] = FALSE]
  /\ UNCHANGED <<token_cache, now>>
  /\ LET r == resolve_tenant_id(tenant_id_input(arg))
     IN IF r.raised
          THEN /\ Finish(i, r)
               /\ tenant_id' = [tenant_id EXCEPT ![i] = NoTenant]
               /\ api_key' = [api_key EXCEPT ![i] = NoKey]
        ELSE LET t == r.value[1]
                 k == r.value[2]
                 c == token_is_cached(token_cache, t, now)
             IN /\ tenant_id' = [tenant_id EXCEPT ![i] = t]
                /\ api_key' = [api_key EXCEPT ![i] = k]
                /\ IF c.raised
                     THEN Finish(i, c)
                   ELSE IF c.value
                     THEN /\ pc' = [pc EXCEPT ![i] = "have_token"]
                          /\ token' = [token EXCEPT ![i] = token_cache[t].token]
                          /\ token_expiration' =
                               [token_expiration EXCEPT
                                  ![i] = token_cache[t].expiration]
                          /\ net' = [net EXCEPT ![i] = NoMsg]
                          /\ outcome' = [outcome EXCEPT ![i] = NoOutcome]
                          /\ sent' = [sent EXCEPT ![i] = NoneSent]
                   ELSE /\ pc' = [pc EXCEPT ![i] = "await_token"]
                        /\ token' = [token EXCEPT ![i] = JNull]
                        /\ token_expiration' =
                             [token_expiration EXCEPT ![i] = NoToken]
                        /\ net' = [net EXCEPT ![i] = token_request(t, k)]
                        /\ outcome' = [outcome EXCEPT ![i] = NoOutcome]
                        /\ sent' = [sent EXCEPT ![i] = [post |-> 1, get |-> 0]]

\* The token endpoint answers the POST of invocation i (or the request
\* times out) and fetch_token resumes with the answer, utils.py:85-98.
FetchTokenResume(i) ==
  /\ pc[i] = "await_token"
  /\ UNCHANGED <<now, tool_arg, tenant_id, api_key, json_parsed>>
  /\ \E resp \in TokenReplies(net[i].tenant) :
     /\ response' = [response EXCEPT ![i] = resp]
     /\ LET r == read_token_response(resp)
        IN IF r.raised
             THEN /\ Finish(i, r)
                  /\ UNCHANGED token_cache
           ELSE /\ token_cache' = store_token(token_cache, tenant_id[i],
                                              r.value.token,
                                              r.value.expiration)
                /\ token' = [token EXCEPT ![i] = r.value.token]
                /\ token_expiration' =
                     [token_expiration EXCEPT ![i] = r.value.expiration]
                /\ pc' = [pc EXCEPT ![i] = "have_token"]
                /\ net' = [net EXCEPT ![i] = NoMsg]
                /\ UNCHANGED <<outcome, sent>>

\* Faulty variant of IssueGet: a GET still unanswered is issued once more.
IssueGet_again(i) ==
  /\ pc[i] \in {"have_token", "await_get"}
  /\ sent[i].get < 2
  /\ pc' = [pc EXCEPT ![i] = "await_get"]
  /\ net' = [net EXCEPT ![i] = get_request(tenant_id[i], token[i])]
  /\ response' = [response EXCEPT ![i] = NoMsg]
  /\ sent' = [sent EXCEPT ![i].get = @ + 1]
  /\ token_expiration' = [token_expiration EXCEPT ![i] = NoToken]
  /\ UNCHANGED <<token_cache, now, tool_arg, tenant_id, api_key, token,
                 outcome, json_parsed>>

\* call_ibm_storageinsights_api issues the GET, utils.py:138-148.
IssueGet(i) ==
  /\ pc[i] = "have_token"
  /\ pc' = [pc EXCEPT ![i] = "await_get"]
  /\ net' = [net EXCEPT ![i] = get_request(tenant_id[i], token[i])]
  /\ response' = [response EXCEPT ![i] = NoMsg]
  /\ sent' = [sent EXCEPT ![i].get = @ + 1]
  /\ token_expiration' = [token_expiration EXCEPT ![i] = NoToken]
  /\ UNCHANGED <<token_cache, now, tool_arg, tenant_id, api_key, token,
                 outcome, json_parsed>>

\* The data endpoint answers the GET of invocation i (or the request times
\* out); call_ibm_storageinsights_api resumes with the answer,
\* utils.py:149-158, and the tool wraps what it returned or raised,
\* server.py:79-91.
GetResume(i) ==
  /\ pc[i] = "await_get"
  /\ \E resp \in DataReplies :
     /\ response' = [response EXCEPT ![i] = resp]
     /\ Finish(i, read_get_response(resp))
     /\ json_parsed' = [json_parsed EXCEPT ![i] = calls_json(resp)]
  /\ UNCHANGED <<token_cache, now, tool_arg, tenant_id, api_key>>

\* The wall clock advances.
Tick ==
  /\ now < MaxTime
  /\ now' = now + 1
  /\ UNCHANGED <<token_cache, pc, tool_arg, tenant_id, api_key, token,
                 token_expiration, net, response, outcome, sent, json_parsed>>

Next ==
  \/ \E i \in Invocations, arg \in ToolInputs : ToolInvoke(i, arg)
  \/ \E i \in Invocations : FetchTokenResume(i)
  \/ \E i \in Invocations : IssueGet(i)
  \/ \E i \in Invocations : GetResume(i)
  \/ Tick

Spec == Init /\ [][Next]_vars

\* Scheduling: every network call is answered or times out (timeout=30.0 at
\* utils.py:85, timeout=100.0 at utils.py:147), and the event loop resumes a
\* coroutine whose await has completed.  Clients and the clock are free.
Fairness ==
  \A i \in Invocations :
    /\ WF_vars(FetchTokenResume(i))
    /\ WF_vars(IssueGet(i))
    /\ WF_vars(GetResume(i))

FairSpec == Spec /\ Fairness

(***************************************************************************)
(* Vocabulary of the properties.                                           *)
(***************************************************************************)
\* Tenant t has a cache entry that is valid at the current instant.
HasValidEntry(t) ==
  /\ t \in DOMAIN token_cache
  /\ token_cache[t].expiration.type = "int"
  /\ token_cache[t].expiration.val > now

\* Tenant t has no entry, or one whose expiration is a number <= now.
HasNoOrExpiredEntry(t) ==
  \/ t \notin DOMAIN token_cache
  \/ /\ token_cache[t].expiration.type = "int"
     /\ token_cache[t].expiration.val <= now

\* The tenant ids resolve_tenant_id accepts.
KnownTenants == {SI_TENANT_ID} \cup DOMAIN additional_tenant_api_mapping

\* The tool argument names a known tenant (or is left out).
ArgIsKnown(arg) == arg = Omitted \/ arg \in KnownTenants
ArgTenant(arg) == IF arg = Omitted THEN SI_TENANT_ID ELSE arg

\* resp is a 2xx answer whose body is {result: {token, expiration}}, both
\* fields present.
HasTokenFields(resp) ==
  /\ resp.kind = "response"
  /\ resp.status_code \in 200..299
  /\ "json" \in DOMAIN resp.content
  /\ resp.content.json.type = "object"
  /\ "result" \in DOMAIN resp.content.json.fields
  /\ resp.content.json.fields.result.type = "object"
  /\ {"token", "expiration"}
        \subseteq DOMAIN resp.content.json.fields.result.fields
RespToken(resp) == resp.content.json.fields.result.fields.token
RespExpiration(resp) == resp.content.json.fields.result.fields.expiration

\* resp is a success of the token endpoint as documented: a token string and
\* a numeric expiration.
IsTokenSuccess(resp) ==
  /\ HasTokenFields(resp)
  /\ RespToken(resp).type = "str"
  /\ RespExpiration(resp).type = "int"

\* The steps of invocation i.  An invocation that is idle or done acts only
\* by being called again; one that awaits a response acts only by resuming.
Acts(i) ==
  <<pc[i], tool_arg[i], tenant_id[i], api_key[i], token[i], net[i],
    response[i], outcome[i]>>' #
  <<pc[i], tool_arg[i], tenant_id[i], api_key[i], token[i], net[i],
    response[i], outcome[i]>>
ToolCalled(i) == pc[i] \in {"idle", "done"} /\ Acts(i)
TokenResumed(i) == pc[i] = "await_token" /\ pc'[i] # "await_token"
GetIssued(i) == pc[i] = "have_token" /\ pc'[i] = "await_get"
GetResumed(i) == pc[i] = "await_get" /\ pc'[i] = "done"

\* Invocation i issues a token request in this step.
IssuesTokenRequest(i) ==
  /\ net'[i] # net[i]
  /\ net'[i].kind = "request"
  /\ net'[i].method = "POST"

\* resp is a failure of the GET: a timeout, a non-2xx status, or a body that
\* is neither empty nor JSON.
GetFailed(resp) ==
  \/ resp.kind = "timeout"
  \/ resp.status_code \notin 200..299
  \/ resp.content # EmptyContent /\ "json" \notin DOMAIN resp.content

\* The api key the registry (settings and additional mapping) holds for a
\* known tenant t.
RegistryKey(t) ==
  IF t = SI_TENANT_ID THEN SI_API_KEY ELSE additional_tenant_api_mapping[t]

\* Under FairSpec every invocation that has started completes with a result:
\* no step of an invocation waits for another invocation.
EveryInvocationCompletes ==
  \A i \in Invocations :
    (pc[i] \in {"await_token", "have_token", "await_get"})
      ~> (pc[i] = "done" /\ outcome[i].kind = "result")

(***************************************************************************)
(* C1.  Reuse: when fetch_token is called for a tenant whose cache entry   *)
(* exists with expiration > now, it returns exactly the cached token,      *)
(* issues no token request and leaves the token cache unchanged.           *)
(***************************************************************************)
C1_Reuse ==
  [][\A i \in Invocations :
       (/\ ToolCalled(i)
        /\ ArgIsKnown(tool_arg'[i])
        /\ HasValidEntry(ArgTenant(tool_arg'[i])))
       => /\ pc'[i] = "have_token"
          /\ token'[i] = token_cache[ArgTenant(tool_arg'[i])].token
          /\ ~IssuesTokenRequest(i)
          /\ sent'[i].post = 0
          /\ token_cache' = token_cache]_vars

\* An invocation holds the token of a valid entry without having asked for
\* one.
C1_Witness ==
  \E i \in Invocations :
    /\ pc[i] = "have_token"
    /\ sent[i].post = 0
    /\ HasValidEntry(tenant_id[i])
    /\ token[i] = token_cache[tenant_id[i]].token

(***************************************************************************)
(* C2.  Refresh: when fetch_token is called for a tenant with no entry or  *)
(* with an entry whose expiration <= now (equal included), it issues       *)
(* exactly one token request for that tenant; on success the tenant's      *)
(* entry becomes exactly the (token, expiration) of the response,          *)
(* overwriting any earlier entry, and the response's token is returned.    *)
(***************************************************************************)
C2_Refresh ==
  [][\A i \in Invocations :
       /\ (/\ ToolCalled(i)
           /\ ArgIsKnown(tool_arg'[i])
           /\ HasNoOrExpiredEntry(ArgTenant(tool_arg'[i])))
            => /\ pc'[i] = "await_token"
               /\ IssuesTokenRequest(i)
               /\ net'[i].tenant = ArgTenant(tool_arg'[i])
               /\ sent'[i].post = 1
               /\ token_cache' = token_cache
       /\ TokenResumed(i)
            => /\ sent[i].post = 1
               /\ ~IssuesTokenRequest(i)
               /\ IsTokenSuccess(response'[i])
                    => /\ pc'[i] = "have_token"
                       /\ sent'[i].post = 1
                       /\ token_cache'[tenant_id[i]] =
                            [token |-> RespToken(response'[i]),
                             expiration |-> RespExpiration(response'[i])]
                       /\ token'[i] = RespToken(response'[i])]_vars

\* One invocation still holds the token it reused from the tenant's earlier
\* entry while the other, called once that entry had expired, has replaced
\* the entry by the pair of its own response.
C2_Witness ==
  \E i, j \in Invocations :
    /\ i # j
    /\ tenant_id[i] = tenant_id[j]
    /\ pc[j] = "have_token" /\ sent[j].post = 0
    /\ pc[i] = "have_token" /\ sent[i].post = 1
    /\ IsTokenSuccess(response[i])
    /\ token[i] # token[j]
    /\ token_cache[tenant_id[i]] =
         [token |-> token[i], expiration |-> RespExpiration(response[i])]

(***************************************************************************)
(* C3.  Under any interleaving, a token fetch for tenant t stores its      *)
(* result only when t has no entry or t's entry has expired: a still-valid *)
(* entry is never overwritten, so each validity window is served by at     *)
(* most one fetch.                                                         *)
(***************************************************************************)
C3_OneFetchPerWindow ==
  [][\A i \in Invocations :
       (TokenResumed(i) /\ IsTokenSuccess(response'[i]))
       => ~HasValidEntry(tenant_id[i])]_vars

(***************************************************************************)
(* C4.  As claimed: when two fetch_token calls for one tenant overlap and  *)
(* the endpoint answers both successfully, neither raises and each returns *)
(* the token of its own response, which is valid (expiration > now) when   *)
(* returned.                                                               *)
(***************************************************************************)
C4_OverlapValidToken ==
  [][\A i, j \in Invocations :
       (/\ i # j
        /\ tenant_id[j] = tenant_id[i]
        /\ pc[j] = "await_token"
        /\ TokenResumed(i)
        /\ IsTokenSuccess(response'[i]))
       => /\ pc'[i] = "have_token"
          /\ token'[i] = RespToken(response'[i])
          /\ RespExpiration(response'[i]).val > now]_vars

(***************************************************************************)
(* C4, amended.  Every fetch_token call that resumes with a successful     *)
(* answer, whether or not another call for the same tenant is in flight,   *)
(* does not raise and returns the token of its own response; the code does *)
(* not look at that response's expiration before returning.                *)
(***************************************************************************)
C4_OverlapOwnToken ==
  [][\A i \in Invocations :
       (TokenResumed(i) /\ IsTokenSuccess(response'[i]))
       => /\ pc'[i] = "have_token"
          /\ outcome'[i] = NoOutcome
          /\ token'[i] = RespToken(response'[i])
          /\ token'[i].val \in IssuedTokens(tenant_id[i])]_vars

\* Both invocations fetched a token for the same tenant and each holds the
\* token of its own response, the two differ, and both responses are still
\* valid: the second call passed the reuse check before the first response
\* was stored, or it would have reused that entry.
C4_Witness ==
  \E i, j \in Invocations :
    /\ i # j
    /\ tenant_id[i] = tenant_id[j]
    /\ pc[i] = "have_token" /\ sent[i].post = 1
    /\ pc[j] = "have_token" /\ sent[j].post = 1
    /\ IsTokenSuccess(response[i]) /\ IsTokenSuccess(response[j])
    /\ RespExpiration(response[i]).val > now
    /\ RespExpiration(response[j]).val > now
    /\ token[i] = RespToken(response[i])
    /\ token[j] = RespToken(response[j])
    /\ token[i] # token[j]

(***************************************************************************)
(* C5.  If the token request fails (non-2xx status, timeout, or a body     *)
(* that is not the documented {result: {token: string, expiration:         *)
(* number}}), fetch_token fails with an error and the token cache is       *)
(* exactly as it was before the call.                                      *)
(***************************************************************************)
C5_FailedFetchNotCached ==
  [][\A i \in Invocations :
       (TokenResumed(i) /\ ~IsTokenSuccess(response'[i]))
       => /\ pc'[i] = "done"
          /\ outcome'[i].isError
          /\ token_cache' = token_cache]_vars

C7_DefaultTenant ==
  [][\A i \in Invocations :
       (ToolCalled(i) /\ tool_arg'[i] \in {SI_TENANT_ID, Omitted})
       => /\ tenant_id'[i] = SI_TENANT_ID
          /\ api_key'[i] = SI_API_KEY
          /\ pc'[i] = "done" => outcome'[i].text.exc # "ValueError"
          /\ pc'[i] = "await_token"
               => net'[i] = token_request(SI_TENANT_ID, SI_API_KEY)]_vars

\* A call without tenant id asks for a token of the default tenant with the
\* default api key.
C7_Witness ==
  \E i \in Invocations :
    /\ tool_arg[i] = Omitted
    /\ pc[i] = "await_token"
    /\ net[i].tenant = SI_TENANT_ID
    /\ net[i].auth = SI_API_KEY

(***************************************************************************)
(* C8.  For every tenant id that is a key of the additional mapping and    *)
(* not the default tenant id, resolve_tenant_id returns that same id with  *)
(* exactly the api key the mapping holds for it.                           *)
(***************************************************************************)
C8_AdditionalTenant ==
  [][\A i \in Invocations :
       (/\ ToolCalled(i)
        /\ tool_arg'[i] \in DOMAIN additional_tenant_api_mapping
        /\ tool_arg'[i] # SI_TENANT_ID)
       => /\ tenant_id'[i] = tool_arg'[i]
          /\ api_key'[i] = additional_tenant_api_mapping[tool_arg'[i]]
          /\ api_key'[i] # SI_API_KEY
          /\ pc'[i] = "done" => outcome'[i].text.exc # "ValueError"]_vars

\* A call for the additional tenant asks for a token with that tenant's key.
C8_Witness ==
  \E i \in Invocations :
    /\ tool_arg[i] = "t2"
    /\ pc[i] = "await_token"
    /\ net[i].tenant = "t2"
    /\ net[i].auth = additional_tenant_api_mapping["t2"]

(***************************************************************************)
(* C9.  If the GET returns a 2xx status with an empty body,                *)
(* call_ibm_storageinsights_api returns None as a success: no error is     *)
(* raised and response.json() is not called.                               *)
(***************************************************************************)
C9_EmptyBodyIsNone ==
  [][\A i \in Invocations :
       (/\ GetResumed(i)
        /\ response'[i].kind = "response"
        /\ response'[i].status_code \in 200..299
        /\ response'[i].content = EmptyContent)
       => /\ ~outcome'[i].isError
          /\ outcome'[i].text = JNull
          /\ ~json_parsed'[i]]_vars

\* An invocation ended with the null result of a 200 answer without body.
C9_Witness ==
  \E i \in Invocations :
    /\ pc[i] = "done"
    /\ response[i] = HttpResponse(200, EmptyContent)
    /\ ~outcome[i].isError
    /\ outcome[i].text = JNull

(***************************************************************************)
(* C10.  If the GET returns a non-2xx status or times out,                 *)
(* call_ibm_storageinsights_api fails with an error that carries the       *)
(* status or the cause, and returns no result for that call.               *)
(***************************************************************************)
C10_GetFailureRaises ==
  [][\A i \in Invocations :
       /\ (GetResumed(i) /\ response'[i].kind = "timeout")
            => /\ outcome'[i].isError
               /\ outcome'[i].text = [exc |-> "TimeoutException"]
       /\ (/\ GetResumed(i)
           /\ response'[i].kind = "response"
           /\ response'[i].status_code \notin 200..299)
            => /\ outcome'[i].isError
               /\ outcome'[i].text =
                    [exc |-> "HTTPStatusError",
                     status |-> response'[i].status_code]]_vars

\* An invocation ended with the error of a 401 answer to its GET.
C10_Witness ==
  \E i \in Invocations :
    /\ pc[i] = "done"
    /\ response[i].kind = "response"
    /\ response[i].status_code = 401
    /\ outcome[i].isError
    /\ outcome[i].text = [exc |-> "HTTPStatusError", status |-> 401]

(***************************************************************************)
(* C11.  In call_ibm_storageinsights_api the token is obtained before the  *)
(* GET: a GET is issued only by an invocation that holds a token, and if   *)
(* fetch_token fails (at the token request or at the reuse test) the same  *)
(* error reaches the caller unchanged and no GET is issued for that        *)
(* invocation.                                                             *)
(***************************************************************************)
C11_TokenBeforeGet ==
  [][\A i \in Invocations :
       /\ (/\ net'[i] # net[i]
           /\ net'[i].kind = "request"
           /\ net'[i].method = "GET")
            => /\ GetIssued(i)
               /\ token[i] # NoToken
               /\ sent[i].get = 0
               /\ net'[i] = get_request(tenant_id[i], token[i])
       /\ (TokenResumed(i) /\ read_token_response(response'[i]).raised)
            => /\ pc'[i] = "done"
               /\ outcome'[i].isError
               /\ outcome'[i].text = read_token_response(response'[i]).error
               /\ sent[i].get = 0
               /\ net'[i] = NoMsg
       /\ (TokenResumed(i) /\ response'[i] = Timeout)
            => outcome'[i].text = [exc |-> "TimeoutException"]
       /\ (TokenResumed(i) /\ response'[i] = HttpResponse(500, EmptyContent))
            => outcome'[i].text = [exc |-> "HTTPStatusError", status |-> 500]
       /\ (/\ ToolCalled(i)
           /\ ArgIsKnown(tool_arg'[i])
           /\ token_is_cached(token_cache, ArgTenant(tool_arg'[i]),
                              now).raised)
            => /\ pc'[i] = "done"
               /\ outcome'[i].isError
               /\ outcome'[i].text = [exc |-> "TypeError"]
               /\ net'[i] = NoMsg]_vars

\* An invocation ended with the error of a 500 answer to its token request;
\* only the token endpoint answers 500, so no GET was answered.
C11_Witness ==
  \E i \in Invocations :
    /\ pc[i] = "done"
    /\ response[i] = HttpResponse(500, EmptyContent)
    /\ outcome[i].isError
    /\ outcome[i].text = [exc |-> "HTTPStatusError", status |-> 500]
    /\ net[i] = NoMsg

(***************************************************************************)
(* C12.  No automatic retry: one tool invocation issues at most one token  *)
(* request and at most one GET; a failed, timed-out or 5xx answer to       *)
(* either ends the invocation without a further request.                   *)
(***************************************************************************)
C12_NoRetry ==
  [][\A i \in Invocations :
       /\ sent'[i].post <= 1
       /\ sent'[i].get <= 1
       /\ IssuesTokenRequest(i) => (ToolCalled(i) /\ sent'[i].post = 1)
       /\ (net'[i] # net[i] /\ net'[i].kind = "request")
            => sent'[i].post + sent'[i].get = sent[i].post + sent[i].get + 1
                 \/ ToolCalled(i)
       /\ (TokenResumed(i) /\ ~IsTokenSuccess(response'[i]))
            => net'[i].kind # "request" \/ net'[i].method # "POST"
       /\ (TokenResumed(i) /\ pc'[i] = "done") => net'[i] = NoMsg
       /\ GetResumed(i) => net'[i] = NoMsg]_vars

\* One invocation has issued its token request and its GET, one of each,
\* while the other has ended on a timeout with no request left in flight.
C12_Witness ==
  \E i, j \in Invocations :
    /\ i # j
    /\ pc[i] = "await_get"
    /\ sent[i] = [post |-> 1, get |-> 1]
    /\ pc[j] = "done"
    /\ response[j] = Timeout
    /\ outcome[j].isError
    /\ net[j] = NoMsg

(***************************************************************************)
(* C13.  Every tool invocation ends in exactly one of two outcomes: a      *)
(* success result carrying the parsed JSON or null, or an error result     *)
(* carrying the underlying error.  It is an error result if and only if    *)
(* tenant resolution failed, the token fetch failed (a failed token        *)
(* request, or no token string obtained) or the GET failed (timeout,       *)
(* non-2xx, undecodable body); no failure is swallowed into a success.     *)
(***************************************************************************)
C13_SuccessOrError ==
  [][\A i \in Invocations :
       (Acts(i) /\ pc'[i] = "done")
       => /\ outcome'[i].kind = "result"
          /\ outcome'[i].isError \in BOOLEAN
          /\ ToolCalled(i)
               => /\ outcome'[i].isError
                  /\ \/ ~ArgIsKnown(tool_arg'[i])
                     \/ ~HasValidEntry(ArgTenant(tool_arg'[i]))
          /\ TokenResumed(i)
               => /\ outcome'[i].isError
                  /\ ~IsTokenSuccess(response'[i])
          /\ GetResumed(i)
               => /\ outcome'[i].isError
                       <=> (GetFailed(response'[i]) \/ token[i].type # "str")
                  /\ ~outcome'[i].isError
                       => outcome'[i].text =
                            IF response'[i].content = EmptyContent
                              THEN JNull
                            ELSE response'[i].content.json]_vars

(***************************************************************************)
(* C14.  In every reachable state every entry of the token cache is a      *)
(* well-formed TokenEntry, a token string with an integer expiration, so   *)
(* the reuse comparison expiration > now is defined for every cached       *)
(* tenant; a token response with a null or wrongly typed token or          *)
(* expiration is never stored.                                             *)
(***************************************************************************)
C14_WellFormedEntries ==
  \A t \in DOMAIN token_cache :
    /\ token_cache[t].token.type = "str"
    /\ token_cache[t].expiration.type = "int"
    /\ ~token_is_cached(token_cache, t, now).raised

(***************************************************************************)
(* C15.  Last writer wins without corruption: whenever a tenant's cache    *)
(* entry is written it becomes the (token, expiration) pair of the one     *)
(* token response processed in that step, also when refreshes for the      *)
(* tenant overlap; every entry has both fields, and no step pairs the      *)
(* token of one response with the expiration of another.                   *)
(***************************************************************************)
C15_LastWriterWins ==
  [][/\ \A t \in DOMAIN token_cache' :
          /\ DOMAIN token_cache'[t] = {"token", "expiration"}
          /\ (t \notin DOMAIN token_cache \/ token_cache'[t] # token_cache[t])
               => \E i \in Invocations :
                    /\ TokenResumed(i)
                    /\ tenant_id[i] = t
                    /\ HasTokenFields(response'[i])
                    /\ token_cache'[t] =
                         [token |-> RespToken(response'[i]),
                          expiration |-> RespExpiration(response'[i])]
     /\ \A i \in Invocations :
          (TokenResumed(i) /\ IsTokenSuccess(response'[i]))
          => /\ token_cache'[tenant_id[i]] =
                  [token |-> RespToken(response'[i]),
                   expiration |-> RespExpiration(response'[i])]
             /\ \A u \in DOMAIN token_cache' \ {tenant_id[i]} :
                  u \in DOMAIN token_cache /\ token_cache'[u] = token_cache[u]
    ]_vars

\* Two refreshes for one tenant overlapped and were answered with pairs that
\* differ in token and in expiration; the entry is the pair of the answer
\* processed last, not a mixture of the two.
C15_Witness ==
  \E i, j \in Invocations :
    /\ i # j
    /\ tenant_id[i] = tenant_id[j]
    /\ pc[i] = "have_token" /\ sent[i].post = 1
    /\ pc[j] = "have_token" /\ sent[j].post = 1
    /\ IsTokenSuccess(response[i]) /\ IsTokenSuccess(response[j])
    /\ RespToken(response[i]) # RespToken(response[j])
    /\ RespExpiration(response[i]) # RespExpiration(response[j])
    /\ token_cache[tenant_id[j]] =
         [token |-> RespToken(response[j]),
          expiration |-> RespExpiration(response[j])]

(***************************************************************************)
(* C16.  As claimed: the token a GET carries in x-api-token is valid (its  *)
(* expiration > now) at the moment the GET is issued, whether the token    *)
(* was reused from the cache or freshly fetched.                           *)
(***************************************************************************)
C16_ValidAtGet ==
  [][\A i \in Invocations :
       (GetIssued(i) /\ token[i].type = "str")
       => /\ token_expiration[i].type = "int"
          /\ token_expiration[i].val > now]_vars

(***************************************************************************)
(* C16, amended.  The token a GET carries is the one fetch_token returned  *)
(* to that invocation: on the reuse path the token of an entry that was    *)
(* valid (expiration > now) at the instant of the reuse test, on the       *)
(* refresh path the token of the invocation's own token response, whose    *)
(* expiration is not looked at.  The token is held unchanged until the GET *)
(* is issued, however long that takes.                                     *)
(***************************************************************************)
C16_TokenOfFetch ==
  [][\A i \in Invocations :
       /\ GetIssued(i)
            => /\ net'[i].auth = PyFormat(token[i])
               /\ net'[i].tenant = tenant_id[i]
       /\ (ToolCalled(i) /\ pc'[i] = "have_token")
            => /\ token_expiration'[i].type = "int"
               /\ token_expiration'[i].val > now
               /\ token_cache[tenant_id'[i]] =
                    [token |-> token'[i],
                     expiration |-> token_expiration'[i]]
       /\ (TokenResumed(i) /\ pc'[i] = "have_token")
            => /\ token'[i] = RespToken(response'[i])
               /\ token_expiration'[i] = RespExpiration(response'[i])
       /\ (pc[i] = "have_token" /\ pc'[i] = "have_token")
            => /\ token'[i] = token[i]
               /\ token_expiration'[i] = token_expiration[i]]_vars

\* A GET in flight carries a token reused from the cache, and the entry it
\* was taken from has expired in the meantime.
C16_Witness ==
  \E i \in Invocations :
    /\ pc[i] = "await_get"
    /\ sent[i] = [post |-> 0, get |-> 1]
    /\ tenant_id[i] \in DOMAIN token_cache
    /\ token_cache[tenant_id[i]].token.type = "str"
    /\ net[i].auth = token_cache[tenant_id[i]].token.val
    /\ token_cache[tenant_id[i]].expiration.type = "int"
    /\ token_cache[tenant_id[i]].expiration.val <= now

(***************************************************************************)
(* C17.  Presence in the token cache is monotone: a tenant that has an     *)
(* entry has one in every later state (entries are overwritten, never      *)
(* deleted), and a tenant without entry gets one only through a successful *)
(* token fetch for that same tenant, that is, a fetch answered with a      *)
(* token string and a numeric expiration.                                  *)
(***************************************************************************)
C17_PresenceMonotone ==
  [][/\ DOMAIN token_cache \subseteq DOMAIN token_cache'
     /\ \A t \in DOMAIN token_cache' \ DOMAIN token_cache :
          \E i \in Invocations :
            /\ TokenResumed(i)
            /\ tenant_id[i] = t
            /\ net[i] = token_request(t, api_key[i])
            /\ IsTokenSuccess(response'[i])]_vars

(***************************************************************************)
(* C18.  The token cache is changed only by the successful-refresh step of *)
(* fetch_token: tenant resolution (success or failure), the reuse path, a  *)
(* failed token request and the GET with any outcome (success, empty body, *)
(* non-2xx such as 401, timeout, JSON parse failure) leave it unchanged.   *)
(***************************************************************************)
C18_OnlyRefreshWrites ==
  [][/\ token_cache' # token_cache
          => \E i \in Invocations :
               TokenResumed(i) /\ IsTokenSuccess(response'[i])
     /\ \A i \in Invocations :
          \/ ToolCalled(i)
          \/ GetIssued(i)
          \/ GetResumed(i)
          \/ TokenResumed(i) /\ ~IsTokenSuccess(response'[i])
          => token_cache' = token_cache]_vars

(***************************************************************************)
(* C19.  A tool invocation whose tenant id resolve_tenant_id rejects       *)
(* issues no network call (no token request, no GET), leaves the token     *)
(* cache and every other invocation, in flight or not, as they were, and   *)
(* its only outcome is the error result.                                   *)
(***************************************************************************)
C19_RejectedTenantIsolated ==
  [][\A i \in Invocations :
       (ToolCalled(i) /\ ~ArgIsKnown(tool_arg'[i]))
       => /\ pc'[i] = "done"
          /\ net'[i] = NoMsg
          /\ sent'[i] = NoneSent
          /\ token'[i] = NoToken
          /\ outcome'[i] =
               [kind |-> "result", isError |-> TRUE,
                text |-> [exc |-> "ValueError", tenant |-> tool_arg'[i]]]
          /\ token_cache' = token_cache
          /\ \A j \in Invocations \ {i} :
               /\ pc'[j] = pc[j]
               /\ net'[j] = net[j]
               /\ sent'[j] = sent[j]
               /\ token'[j] = token[j]
               /\ token_expiration'[j] = token_expiration[j]
               /\ tenant_id'[j] = tenant_id[j]
               /\ api_key'[j] = api_key[j]
               /\ response'[j] = response[j]
               /\ outcome'[j] = outcome[j]]_vars

\* A call with an unknown tenant id has ended in the error result while the
\* other invocation is waiting for the token it requested, and the cache
\* holds an entry.
C19_Witness ==
  \E i, j \in Invocations :
    /\ pc[i] = "done"
    /\ tool_arg[i] \notin KnownTenants \cup {Omitted}
    /\ outcome[i].isError
    /\ outcome[i].text.exc = "ValueError"
    /\ net[i] = NoMsg
    /\ pc[j] = "await_token"
    /\ net[j].kind = "request"
    /\ DOMAIN token_cache # {}

(***************************************************************************)
(* C20.  A failed token fetch is not remembered: a fetch for tenant t that *)
(* fails while t's entry is absent or expired leaves t absent or expired,  *)
(* so that the next invocation for t, with no valid entry stored in        *)
(* between, issues a new token request instead of failing from cached      *)
(* state, and goes on with the token if the endpoint answers successfully. *)
(***************************************************************************)
C20_FailureNotRemembered ==
  [][\A i \in Invocations :
       /\ (/\ TokenResumed(i)
           /\ ~IsTokenSuccess(response'[i])
           /\ HasNoOrExpiredEntry(tenant_id[i]))
            => HasNoOrExpiredEntry(tenant_id[i])'
       /\ (/\ ToolCalled(i)
           /\ ArgIsKnown(tool_arg'[i])
           /\ ~HasValidEntry(ArgTenant(tool_arg'[i])))
            => /\ pc'[i] = "await_token"
               /\ IssuesTokenRequest(i)
       /\ (TokenResumed(i) /\ IsTokenSuccess(response'[i]))
            => /\ pc'[i] = "have_token"
               /\ token'[i] = RespToken(response'[i])]_vars

(***************************************************************************)
(* C21.  Failure isolation: invocations do not wait for one another, and a *)
(* slow or failing token request or GET of one invocation never makes a    *)
(* different invocation fail: an invocation ends in an error only through  *)
(* its own rejected tenant id, its own failed token request or its own     *)
(* failed GET, and a step of one invocation leaves the position and the    *)
(* outcome of every other invocation as they were.  (That every invocation *)
(* completes under FairSpec is EveryInvocationCompletes.)                  *)
(***************************************************************************)
C21_FailureIsolation ==
  [][\A j \in Invocations :
       /\ (Acts(j) /\ pc'[j] = "done" /\ outcome'[j].isError)
            => \/ ToolCalled(j) /\ ~ArgIsKnown(tool_arg'[j])
               \/ TokenResumed(j) /\ ~IsTokenSuccess(response'[j])
               \/ GetResumed(j) /\ GetFailed(response'[j])
       /\ \A i \in Invocations \ {j} :
            Acts(i) => /\ pc'[j] = pc[j]
                       /\ outcome'[j] = outcome[j]
                       /\ net'[j] = net[j]]_vars

(***************************************************************************)
(* C22.  The default tenant takes precedence: the default tenant id is     *)
(* also a key of the additional mapping, with another api key, and every   *)
(* invocation resolved to the default tenant holds the default api key,    *)
(* not the mapped one, and sends that key with its token request.          *)
(***************************************************************************)
C22_DefaultTakesPrecedence ==
  /\ SI_TENANT_ID \in DOMAIN additional_tenant_api_mapping
  /\ additional_tenant_api_mapping[SI_TENANT_ID] # SI_API_KEY
  /\ \A i \in Invocations :
       tenant_id[i] = SI_TENANT_ID
       => /\ api_key[i] = SI_API_KEY
          /\ api_key[i] # additional_tenant_api_mapping[SI_TENANT_ID]
          /\ pc[i] = "await_token"
               => net[i] = token_request(SI_TENANT_ID, SI_API_KEY)

\* A call that names the default tenant id, which the mapping lists with
\* the key k9, asks for its token with the default key.
C22_Witness ==
  \E i \in Invocations :
    /\ tool_arg[i] = SI_TENANT_ID
    /\ additional_tenant_api_mapping[tool_arg[i]] = "k9"
    /\ pc[i] = "await_token"
    /\ api_key[i] = SI_API_KEY
    /\ net[i].auth = SI_API_KEY

(***************************************************************************)
(* C23.  Tenant-to-token binding: in every invocation that reaches the     *)
(* network, the token request for tenant t carries the api key the         *)
(* registry holds for t, and the x-api-token of a GET for tenant t is a    *)
(* token the token endpoint issued for t; a token obtained for one tenant  *)
(* is never sent on a request for another tenant.                          *)
(***************************************************************************)
C23_TenantBinding ==
  \A i \in Invocations :
    /\ pc[i] = "await_token"
         => /\ ArgIsKnown(tool_arg[i])
            /\ net[i].tenant = ArgTenant(tool_arg[i])
            /\ net[i].auth = RegistryKey(net[i].tenant)
    /\ pc[i] = "await_get"
         => /\ ArgIsKnown(tool_arg[i])
            /\ net[i].tenant = ArgTenant(tool_arg[i])
            /\ net[i].auth \in IssuedTokens(net[i].tenant)
            /\ \A u \in KnownTenants \ {net[i].tenant} :
                 net[i].auth \notin IssuedTokens(u)

(***************************************************************************)
(* C24.  Per-tenant cache isolation: a token fetch for tenant t, from the  *)
(* reuse test to the reading of the answer, whether it succeeds or fails   *)
(* and whatever else is in flight, leaves the entry, or the absence of an  *)
(* entry, of every other tenant unchanged.                                 *)
(***************************************************************************)
C24_OtherTenantsUntouched ==
  [][\A i \in Invocations :
       /\ TokenResumed(i)
            => \A u \in KnownTenants \ {tenant_id[i]} :
                 /\ u \in DOMAIN token_cache' <=> u \in DOMAIN token_cache
                 /\ u \in DOMAIN token_cache
                      => token_cache'[u] = token_cache[u]
       /\ (ToolCalled(i) /\ ArgIsKnown(tool_arg'[i]))
            => \A u \in KnownTenants \ {ArgTenant(tool_arg'[i])} :
                 /\ u \in DOMAIN token_cache' <=> u \in DOMAIN token_cache
                 /\ u \in DOMAIN token_cache
                      => token_cache'[u] = token_cache[u]]_vars

\* The two invocations fetched tokens for different tenants, one after the
\* other, and the entry of each tenant is the pair of that tenant's answer.
C24_Witness ==
  \E i, j \in Invocations :
    /\ tenant_id[i] = "t1" /\ tenant_id[j] = "t2"
    /\ pc[i] = "have_token" /\ sent[i].post = 1
    /\ pc[j] = "have_token" /\ sent[j].post = 1
    /\ IsTokenSuccess(response[i]) /\ IsTokenSuccess(response[j])
    /\ token_cache["t1"] =
         [token |-> RespToken(response[i]),
          expiration |-> RespExpiration(response[i])]
    /\ token_cache["t2"] =
         [token |-> RespToken(response[j]),
          expiration |-> RespExpiration(response[j])]

====
